---- MODULE Spec2Model ----
(***************************************************************************)
(* A model of the particle filter node of robot_localization/pf.py.        *)
(*                                                                         *)
(* Two flows run concurrently on the shared fields of ParticleFilter:      *)
(*   - the loop thread started in __init__ (loop_wrapper -> run_loop),     *)
(*   - the executor thread of rclpy.spin, which runs the subscription      *)
(*     callbacks scan_received and update_initial_pose one at a time.      *)
(* The interpreter may switch threads between any two statements, so each  *)
(* statement (or group of statements touching only thread-local data) is   *)
(* one action.  The timer callback pub_latest_transform only reads         *)
(* last_scan_timestamp and changes no field, so it has no action.          *)
(*                                                                         *)
(* Units: lengths are counted in halves of d_thresh (0.025 m) and angles   *)
(* in halves of a_thresh (pi/12 rad), so both thresholds are 2.  Floating  *)
(* point weights are exact rationals <<num, den>>, with the two non-finite *)
(* values numpy produces on a division by zero: NaN and Inf.               *)
(***************************************************************************)
EXTENDS Integers, Sequences, FiniteSets, TLC

(***************************************************************************)
(* Bounds of the model.                                                    *)
(***************************************************************************)
\* number of scan messages the lidar delivers
MaxScans == 3
\* number of pose hints ('initialpose' messages) delivered
MaxHints == 1
\* largest coordinate of an odometry pose
MaxCoord == 3
\* largest hit count the occupancy field reports for one particle
MaxHits == 1
\* largest hit count in the specification of the sensor step on its own
MaxRaw == 3

(***************************************************************************)
(* Program constants.                                                      *)
(***************************************************************************)
\* self.n_particles (300 in the source; the model runs a small population)
n_particles == 2
\* self.d_thresh = 0.05 m, in units of 0.025 m
d_thresh == 2
\* self.a_thresh = pi/6 rad, in units of pi/12 rad
a_thresh == 2

(***************************************************************************)
(* Exact arithmetic on weights (numpy float64 without rounding).           *)
(***************************************************************************)
NaN == <<0, 0>>
Inf == <<1, 0>>

RECURSIVE GCD(_, _)
GCD(a, b) == IF b = 0 THEN a ELSE GCD(b, a % b)

Abs(a) == IF a < 0 THEN -a ELSE a

\* the rational n/d (d > 0) in lowest terms
Rat(n, d) ==
    LET g == GCD(Abs(n), d)
    IN  IF n = 0 THEN <<0, 1>> ELSE <<n \div g, d \div g>>

IsFinite(a) == a[2] # 0

\* float addition
RAdd(a, b) ==
    IF a = NaN \/ b = NaN THEN NaN
    ELSE IF a = Inf \/ b = Inf THEN Inf
    ELSE Rat(a[1] * b[2] + b[1] * a[2], a[2] * b[2])

\* float division of non-negative values; x/0 is Inf, 0/0 is NaN (numpy
\* issues a RuntimeWarning and does not raise)
RDiv(a, b) ==
    IF a = NaN \/ b = NaN THEN NaN
    ELSE IF a = Inf THEN (IF b = Inf THEN NaN ELSE Inf)
    ELSE IF b = Inf THEN <<0, 1>>
    ELSE IF b[1] = 0 THEN (IF a[1] = 0 THEN NaN ELSE Inf)
    ELSE Rat(a[1] * b[2], a[2] * b[1])

\* a > b on floats: every comparison with NaN is false
RGt(a, b) ==
    IF a = NaN \/ b = NaN THEN FALSE
    ELSE IF b = Inf THEN FALSE
    ELSE IF a = Inf THEN TRUE
    ELSE a[1] * b[2] > b[1] * a[2]

\* the builtin sum(), left to right from 0
RECURSIVE RSum(_)
RSum(ws) == IF ws = <<>> THEN <<0, 1>> ELSE RAdd(RSum(SubSeq(ws, 1, Len(ws) - 1)), ws[Len(ws)])

(***************************************************************************)
(* Values.                                                                 *)
(***************************************************************************)
\* Python's None; an optional value v is <<>> or a non-empty tuple
None == <<>>

\* the three coordinates of an [x, y, theta] triple
X(p) == p[1]
Y(p) == p[2]
Theta(p) == p[3]

\* odometry poses the transform helper can resolve a scan stamp to: the
\* robot has moved along at most one axis from the odometry origin
Poses ==
    {p \in (0..MaxCoord) \X (0..MaxCoord) \X (0..MaxCoord) :
        Cardinality({i \in 1..3 : p[i] # 0}) <= 1}

\* the delta_t returned with a failed lookup: None, or a signed duration
DeltaTs == {None, <<-1>>, <<0>>, <<1>>}

\* poses an 'initialpose' message can carry (map frame)
HintPoses == {<<MaxCoord + 1, MaxCoord + 1, 0>>}

\* draws of the three np.random.normal calls for one particle, as offsets
\* <<ex, ey, etheta>> from the mean.  The initial spread (xy_std = 0.7 m) is
\* many units wide; the motion noise (scale 0.03 m) is below one unit.
InitNoise == {<<0, 0, 0>>, <<1, 0, 0>>}
OdomNoise == {<<0, 0, 0>>}

\* Particle(x, y, theta)
Particle(x, y, theta) == [x |-> x, y |-> y, theta |-> theta]

VARIABLES
    \* fields of ParticleFilter
    scan_to_process,        \* None or <<stamp>>
    last_scan_timestamp,    \* None or <<stamp>>
    particle_cloud,         \* sequence of particles
    weights,                \* np array of n_particles floats
    current_odom_xy_theta,  \* [] or the anchor <<x, y, theta>>
    odom_pose,              \* unset (None) or the pose of the scan in progress
    robot_pose,             \* unset (None) or the estimate <<x, y, theta>>
    \* the frame of run_loop in the loop thread: pc and its locals
    run,
    \* the frame of the callback the executor thread is running
    cb,
    \* environment: scans and pose hints delivered so far
    stamps,
    hints,
    \* history: which initialization the particles of particle_cloud come from
    origin,
    \* history: what the current (or the last finished) tick has done, and
    \* whether the weights were computed for the list particle_cloud names
    tick

vars == <<scan_to_process, last_scan_timestamp, particle_cloud, weights,
          current_odom_xy_theta, odom_pose, robot_pose, run, cb, stamps, hints,
          origin, tick>>

fields == <<scan_to_process, last_scan_timestamp, particle_cloud, weights,
            current_odom_xy_theta, odom_pose, robot_pose>>

(***************************************************************************)
(* Pure functions of the filter.                                           *)
(***************************************************************************)
\* mutant: the thresholds left at zero, so that any displacement triggers
moved_on_any_displacement(new, cur) ==
    \/ Abs(X(new) - X(cur)) > 0
    \/ Abs(Y(new) - Y(cur)) > 0
    \/ Abs(Theta(new) - Theta(cur)) > 0

\* moved_far_enough_to_update(new_odom_xy_theta), lines 256-260
moved_far_enough_to_update(new, cur) ==
    \/ Abs(X(new) - X(cur)) > d_thresh
    \/ Abs(Y(new) - Y(cur)) > d_thresh
    \/ Abs(Theta(new) - Theta(cur)) > a_thresh

\* the clouds initialize_particle_cloud can build around xy_theta, lines 413-419
InitClouds(xy_theta) ==
    {[i \in 1..n_particles |->
        Particle(X(xy_theta) + e[i][1], Y(xy_theta) + e[i][2], Theta(xy_theta) + e[i][3])] :
     e \in [1..n_particles -> InitNoise]}

\* the clouds the motion step can leave, lines 329-332
Propagate(cloud, delta) ==
    {[i \in 1..Len(cloud) |->
        Particle(cloud[i].x + delta[1] + e[i][1],
                 cloud[i].y + delta[2] + e[i][2],
                 cloud[i].theta + delta[3] + e[i][3])] :
     e \in [1..Len(cloud) -> OdomNoise]}

\* the in-place division of normalize_particles, line 426
Divide(ws, s) == [i \in 1..Len(ws) |-> RDiv(ws[i], s)]

\* n = self.n_particles // 5, line 280 (60 of the 300 particles; a scaled-down
\* population keeps at least one)
n_best == IF n_particles \div 5 > 0 THEN n_particles \div 5 ELSE 1

\* max(candidates, key = weight): the scan keeps the first index and replaces
\* it only by one that compares strictly greater
RECURSIVE ScanMax(_, _, _)
ScanMax(ws, cand, best) ==
    IF cand = <<>> THEN best
    ELSE ScanMax(ws, Tail(cand), IF RGt(ws[Head(cand)], ws[best]) THEN Head(cand) ELSE best)

RECURSIVE Without(_, _)
Without(seq, v) ==
    IF seq = <<>> THEN <<>>
    ELSE IF Head(seq) = v THEN Tail(seq)
    ELSE <<Head(seq)>> \o Without(Tail(seq), v)

\* heapq.nlargest(n, range(len(weights)), key = weight): the indices of the
\* n highest weights, highest first, earlier index first among equals
RECURSIVE NLargest(_, _, _)
NLargest(n, ws, cand) ==
    IF n = 0 \/ cand = <<>> THEN <<>>
    ELSE LET b == ScanMax(ws, Tail(cand), Head(cand))
         IN  <<b>> \o NLargest(n - 1, ws, Without(cand, b))

\* the indices n_highest_weighted(n) selects, line 356
idx_best_particles(n, ws) == NLargest(n, ws, [i \in 1..Len(ws) |-> i])

RECURSIVE SumSeq(_)
SumSeq(seq) == IF seq = <<>> THEN 0 ELSE Head(seq) + SumSeq(Tail(seq))

\* a full turn, 2*pi
Turn == 12 * a_thresh

\* arctan2(mean sin, mean cos) of the headings, lines 286-294: the direction
\* of the summed unit vectors depends only on the headings modulo a full
\* turn and on how often each occurs; it is kept as that multiset
CircularMean(thetas) ==
    [a \in {thetas[k] % Turn : k \in DOMAIN thetas} |->
        Cardinality({k \in DOMAIN thetas : thetas[k] % Turn = a})]

\* the pose update_robot_pose computes from the chosen particles, lines
\* 284-296: the plain average of x and of y and the circular mean of theta
AveragePose(best) ==
    LET n == Len(best)
    IN  << Rat(SumSeq([k \in 1..n |-> best[k].x]), n),
           Rat(SumSeq([k \in 1..n |-> best[k].y]), n),
           CircularMean([k \in 1..n |-> best[k].theta]) >>

\* update_robot_pose raises IndexError when an index of the best weights is
\* not an index of particle_cloud (line 358)
PoseFaults(cloud, ws) ==
    \E k \in DOMAIN idx_best_particles(n_best, ws) :
        idx_best_particles(n_best, ws)[k] > Len(cloud)

\* the estimate of update_robot_pose, lines 280-296
EstimatePose(cloud, ws) ==
    LET idx == idx_best_particles(n_best, ws)
    IN  AveragePose([k \in 1..Len(idx) |-> cloud[idx[k]]])

\* draw_random_sample(choices, probabilities, n) of helper_functions: n
\* independent draws with replacement, choice i with probability weight_i.
\* It cannot draw from an empty population or from one in which no weight
\* is positive; with non-finite weights every choice can come out.
AllFinite(ws) == \A i \in DOMAIN ws : IsFinite(ws[i])

Eligible(choices, probabilities) ==
    IF AllFinite(probabilities)
    THEN {i \in 1..Len(choices) : i <= Len(probabilities) /\ RGt(probabilities[i], <<0, 1>>)}
    ELSE 1..Len(choices)

DrawFaults(choices, probabilities) == Eligible(choices, probabilities) = {}

draw_random_sample(choices, probabilities, n) ==
    {[k \in 1..n |-> choices[ix[k]]] : ix \in [1..n -> Eligible(choices, probabilities)]}

(***************************************************************************)
(* Initial state: ParticleFilter.__init__, lines 76-136.                   *)
(***************************************************************************)
\* run_loop is not running: the loop thread sleeps between two ticks
RunIdle ==
    [pc |-> "sleep", msg |-> None, new_pose |-> None, delta_t |-> None,
     xy_theta |-> None, wsum |-> None, iter |-> <<>>, idx |-> 0,
     samples |-> <<>>, sorigin |-> "none", raw_weight |-> 0]

\* the executor thread runs no callback
CbIdle == [pc |-> "idle", xy_theta |-> None, wsum |-> None, anchor0 |-> None]

NoTick ==
    [kind |-> "none", msg |-> None, delta_t |-> None, ran |-> <<>>, pubs |-> 0,
     size |-> 0, hint |-> FALSE, weighed |-> "no"]

Init ==
    /\ scan_to_process = None
    /\ last_scan_timestamp = None
    /\ particle_cloud = <<>>
    /\ weights = [i \in 1..n_particles |-> <<1, 1>>]
    /\ current_odom_xy_theta = None
    /\ odom_pose = None
    /\ robot_pose = None
    /\ run = RunIdle
    /\ cb = CbIdle
    /\ stamps = 0
    /\ hints = 0
    /\ origin = "none"
    /\ tick = NoTick

(***************************************************************************)
(* The executor thread: scan_received and update_initial_pose.             *)
(***************************************************************************)
\* mutant: the slot always takes the latest scan
AcceptLatest(slot, msg) == msg

\* the slot after scan_received(msg), lines 441-442
Accept(slot, msg) == IF slot = None THEN msg ELSE slot

\* scan_received(msg), lines 437-442.  The test and the assignment of lines
\* 441-442 are one step: between them the loop can only empty the slot, and
\* then the scan is dropped exactly as if it had been tested first.
ScanReceivedUpTo(limit) ==
    /\ cb.pc = "idle"
    /\ stamps < limit
    /\ stamps' = stamps + 1
    /\ last_scan_timestamp' = <<stamps + 1>>
    /\ scan_to_process' = Accept(scan_to_process, <<stamps + 1>>)
    /\ UNCHANGED <<particle_cloud, weights, current_odom_xy_theta, odom_pose,
                   robot_pose, run, cb, hints, origin, tick>>

\* the lidar delivers MaxScans scans
scan_received == ScanReceivedUpTo(MaxScans)

\* the pcs of run_loop between the gate and the end of resample_particles
CyclePcs ==
    {"odom", "laser_begin", "laser", "pose_sum", "pose_div", "pose_est",
     "res_sum", "res_div", "res_draw", "res_assign"}

\* update_initial_pose(msg) up to the first statement of
\* initialize_particle_cloud, lines 398-410
update_initial_pose ==
    /\ cb.pc = "idle"
    /\ hints < MaxHints
    /\ hints' = hints + 1
    /\ \E h \in HintPoses :
        cb' = [cb EXCEPT !.pc = "h_build", !.xy_theta = h, !.anchor0 = current_odom_xy_theta]
    /\ particle_cloud' = <<>>
    /\ origin' = "none"
    /\ tick' = [tick EXCEPT !.hint = @ \/ run.pc \in CyclePcs, !.weighed = "no"]
    /\ UNCHANGED <<scan_to_process, last_scan_timestamp, weights, current_odom_xy_theta,
                   odom_pose, robot_pose, run, stamps>>

\* initialize_particle_cloud in the callback, lines 413-419
HintBuild ==
    /\ cb.pc = "h_build"
    /\ particle_cloud' \in InitClouds(cb.xy_theta)
    /\ origin' = "hint"
    /\ cb' = [cb EXCEPT !.pc = "h_sum"]
    /\ tick' = [tick EXCEPT !.weighed = "no"]
    /\ UNCHANGED <<scan_to_process, last_scan_timestamp, weights, current_odom_xy_theta,
                   odom_pose, robot_pose, run, stamps, hints>>

\* normalize_particles in the callback: sum(self.weights), line 426
HintNormSum ==
    /\ cb.pc = "h_sum"
    /\ cb' = [cb EXCEPT !.pc = "h_div", !.wsum = RSum(weights)]
    /\ UNCHANGED <<fields, run, stamps, hints, origin, tick>>

\* normalize_particles in the callback: self.weights /= ..., line 426
HintNormDiv ==
    /\ cb.pc = "h_div"
    /\ weights' = Divide(weights, cb.wsum)
    /\ cb' = CbIdle
    /\ UNCHANGED <<scan_to_process, last_scan_timestamp, particle_cloud,
                   current_odom_xy_theta, odom_pose, robot_pose, run, stamps, hints,
                   origin, tick>>

(***************************************************************************)
(* The loop thread: one tick of loop_wrapper is one call of run_loop.      *)
(***************************************************************************)
\* the tick record with one more completed step
Ran(t, step) == [t EXCEPT !.ran = Append(@, step)]

\* run_loop, lines 210-212: return at once when no scan is pending
TickStart ==
    /\ run.pc = "sleep"
    /\ IF scan_to_process = None
       THEN /\ tick' = [NoTick EXCEPT !.kind = "noscan"]
            /\ run' = run
       ELSE /\ tick' = [NoTick EXCEPT !.kind = "taken", !.msg = scan_to_process]
            /\ run' = [run EXCEPT !.pc = "lookup", !.msg = scan_to_process]
    /\ UNCHANGED <<fields, cb, stamps, hints, origin>>

\* mutant: every failed lookup that reports a delta_t discards the scan
DiscardOnAnyDelta(delta_t) == delta_t # None

\* line 219: the transform will never come
Discard(delta_t) == delta_t # None /\ delta_t[1] < 0

\* run_loop, lines 214-222: get_matching_odom_pose resolves the stamp to a
\* pose, or returns no pose and a delta_t
Lookup ==
    /\ run.pc = "lookup"
    /\ \/ /\ \E p \in Poses : run' = [run EXCEPT !.pc = "clear", !.new_pose = p]
          /\ UNCHANGED <<scan_to_process, tick>>
       \/ \E dt \in DeltaTs :
            /\ scan_to_process' = IF Discard(dt) THEN None ELSE scan_to_process
            /\ tick' = [tick EXCEPT !.kind = IF Discard(dt) THEN "dropped" ELSE "retry",
                                    !.delta_t = dt]
            /\ run' = RunIdle
    /\ UNCHANGED <<last_scan_timestamp, particle_cloud, weights, current_odom_xy_theta,
                   odom_pose, robot_pose, cb, stamps, hints, origin>>

\* mutant: the slot keeps the scan whose lookup has resolved
SlotKept(slot) == slot

\* the slot after line 231, self.scan_to_process = None
SlotCleared(slot) == None

\* run_loop, lines 224-236: clear the slot, keep the pose of this scan
ClearScan ==
    /\ run.pc = "clear"
    /\ scan_to_process' = SlotCleared(scan_to_process)
    /\ odom_pose' = run.new_pose
    /\ run' = [run EXCEPT !.pc = "gate"]
    /\ UNCHANGED <<last_scan_timestamp, particle_cloud, weights, current_odom_xy_theta,
                   robot_pose, cb, stamps, hints, origin, tick>>

\* mutant: the empty cloud is tested before the missing anchor
BranchCloudFirst(anchor, cloud, new_odom_xy_theta) ==
    IF cloud = <<>> THEN "init"
    ELSE IF anchor = None THEN "anchor"
    ELSE IF moved_far_enough_to_update(new_odom_xy_theta, anchor) THEN "cycle"
    ELSE "skip"

\* the branch run_loop takes, lines 238-243
Branch(anchor, cloud, new_odom_xy_theta) ==
    IF anchor = None THEN "anchor"
    ELSE IF cloud = <<>> THEN "init"
    ELSE IF moved_far_enough_to_update(new_odom_xy_theta, anchor) THEN "cycle"
    ELSE "skip"

\* run_loop, lines 238-243
Gate ==
    /\ run.pc = "gate"
    /\ LET b == Branch(current_odom_xy_theta, particle_cloud, odom_pose)
       IN  /\ tick' = [tick EXCEPT !.kind = b]
           /\ current_odom_xy_theta' =
                IF b = "anchor" THEN odom_pose ELSE current_odom_xy_theta
           /\ run' = [run EXCEPT !.pc = CASE b = "anchor" -> "publish"
                                         [] b = "init" -> "init_clear"
                                         [] b = "cycle" -> "odom"
                                         [] b = "skip" -> "publish"]
    /\ UNCHANGED <<scan_to_process, last_scan_timestamp, particle_cloud, weights,
                   odom_pose, robot_pose, cb, stamps, hints, origin>>

\* initialize_particle_cloud(stamp) in the loop, lines 407-410: the seed is
\* the pose of this tick's scan
LoopInitClear ==
    /\ run.pc = "init_clear"
    /\ run' = [run EXCEPT !.pc = "init_build", !.xy_theta = odom_pose]
    /\ particle_cloud' = <<>>
    /\ origin' = "none"
    /\ UNCHANGED <<scan_to_process, last_scan_timestamp, weights, current_odom_xy_theta,
                   odom_pose, robot_pose, cb, stamps, hints, tick>>

\* initialize_particle_cloud in the loop, lines 413-419
LoopInitBuild ==
    /\ run.pc = "init_build"
    /\ particle_cloud' \in InitClouds(run.xy_theta)
    /\ origin' = "odom"
    /\ run' = [run EXCEPT !.pc = "init_sum"]
    /\ UNCHANGED <<scan_to_process, last_scan_timestamp, weights, current_odom_xy_theta,
                   odom_pose, robot_pose, cb, stamps, hints, tick>>

\* mutant: the tick that initializes the cloud returns without publishing
AfterNormalizeInitReturns(pc) ==
    CASE pc = "init_div" -> "sleep"
      [] pc = "pose_div" -> "pose_est"
      [] pc = "res_div" -> "res_draw"

\* mutant: the cycle publishes right after the sensor step
AfterNormalizePublishesEarly(pc) ==
    CASE pc = "init_div" -> "publish"
      [] pc = "pose_div" -> "publish"
      [] pc = "res_div" -> "res_draw"

\* where the loop goes after a normalize_particles call
AfterNormalize(pc) ==
    CASE pc = "init_div" -> "publish"
      [] pc = "pose_div" -> "pose_est"
      [] pc = "res_div" -> "res_draw"

\* normalize_particles in the loop: sum(self.weights), line 426; called from
\* lines 421, 269 and 343
LoopNormSum ==
    /\ run.pc \in {"init_sum", "pose_sum", "res_sum"}
    /\ run' = [run EXCEPT !.wsum = RSum(weights),
                          !.pc = CASE run.pc = "init_sum" -> "init_div"
                                   [] run.pc = "pose_sum" -> "pose_div"
                                   [] run.pc = "res_sum" -> "res_div"]
    /\ UNCHANGED <<fields, cb, stamps, hints, origin, tick>>

\* normalize_particles in the loop: self.weights /= ..., line 426
LoopNormDiv ==
    /\ run.pc \in {"init_div", "pose_div", "res_div"}
    /\ weights' = Divide(weights, run.wsum)
    /\ run' = [run EXCEPT !.wsum = None, !.pc = AfterNormalize(run.pc)]
    /\ tick' = IF run.pc = "init_div" THEN Ran(tick, "init") ELSE tick
    /\ UNCHANGED <<scan_to_process, last_scan_timestamp, particle_cloud,
                   current_odom_xy_theta, odom_pose, robot_pose, cb, stamps, hints,
                   origin>>

\* the displacement update_particles_with_odom applies, lines 318-327: none
\* when there is no anchor yet
Delta(new_odom_xy_theta, anchor) ==
    IF anchor # None
    THEN <<X(new_odom_xy_theta) - X(anchor), Y(new_odom_xy_theta) - Y(anchor),
           Theta(new_odom_xy_theta) - Theta(anchor)>>
    ELSE None

\* mutant: the motion step forgets the anchor
AnchorDropped(new_odom_xy_theta) == None

\* the anchor after lines 324 and 326, self.current_odom_xy_theta =
\* new_odom_xy_theta
AnchorMoved(new_odom_xy_theta) == new_odom_xy_theta

\* update_particles_with_odom, lines 315-332: move the anchor to the pose of
\* this scan and shift every particle by the displacement plus noise
Odom ==
    /\ run.pc = "odom"
    /\ LET delta == Delta(odom_pose, current_odom_xy_theta)
       IN  /\ current_odom_xy_theta' = AnchorMoved(odom_pose)
           /\ IF delta = None
              THEN particle_cloud' = particle_cloud
              ELSE particle_cloud' \in Propagate(particle_cloud, delta)
    /\ run' = [run EXCEPT !.pc = "laser_begin"]
    /\ tick' = Ran(tick, "motion")
    /\ UNCHANGED <<scan_to_process, last_scan_timestamp, weights, odom_pose,
                   robot_pose, cb, stamps, hints, origin>>

\* update_particles_with_laser, line 366: the for statement takes the list
\* that particle_cloud names now
LaserBegin ==
    /\ run.pc = "laser_begin"
    /\ run' = [run EXCEPT !.iter = particle_cloud, !.idx = 0,
                          !.pc = IF particle_cloud = <<>> THEN "pose_sum" ELSE "laser"]
    /\ tick' = IF particle_cloud = <<>>
               THEN Ran(tick, "sensor")
               ELSE [tick EXCEPT !.weighed = "running"]
    /\ UNCHANGED <<fields, cb, stamps, hints, origin>>

\* the weight update_particles_with_laser stores for a particle with
\* raw_weight hits, lines 374-377
LaserWeight(raw_weight) == <<raw_weight, 1>>

\* update_particles_with_laser, lines 367-377, for one particle: the
\* occupancy field decides how many projected scan points are hits, a number
\* among counts
LaserStepOver(counts) ==
    /\ run.pc = "laser"
    /\ \E raw_weight \in counts :
        /\ weights' = [weights EXCEPT ![run.idx + 1] = LaserWeight(raw_weight)]
        /\ IF run.idx + 1 = Len(run.iter)
           THEN /\ run' = [run EXCEPT !.iter = <<>>, !.idx = 0, !.pc = "pose_sum",
                                      !.raw_weight = raw_weight]
                /\ tick' = [Ran(tick, "sensor") EXCEPT
                                !.weighed = IF @ = "running" THEN "yes" ELSE @]
           ELSE /\ run' = [run EXCEPT !.idx = @ + 1, !.raw_weight = raw_weight]
                /\ tick' = tick
    /\ UNCHANGED <<scan_to_process, last_scan_timestamp, particle_cloud,
                   current_odom_xy_theta, odom_pose, robot_pose, cb, stamps, hints,
                   origin>>

\* the sensor step of the filter
LaserStep == LaserStepOver(0..MaxHits)

\* an uncaught exception ends the loop thread: loop_wrapper has no handler
RunDead == [RunIdle EXCEPT !.pc = "dead"]

\* update_robot_pose after its normalize, lines 280-307
Estimate ==
    /\ run.pc = "pose_est"
    /\ IF PoseFaults(particle_cloud, weights)
       THEN /\ run' = RunDead
            /\ UNCHANGED <<robot_pose, tick>>
       ELSE /\ robot_pose' = EstimatePose(particle_cloud, weights)
            /\ run' = [run EXCEPT !.pc = "res_sum"]
            /\ tick' = Ran(tick, "pose")
    /\ UNCHANGED <<scan_to_process, last_scan_timestamp, particle_cloud, weights,
                   current_odom_xy_theta, odom_pose, cb, stamps, hints, origin>>

\* resample_particles, line 346, right-hand side: draw_random_sample reads
\* particle_cloud and weights and builds the new list
Draw ==
    /\ run.pc = "res_draw"
    /\ \/ /\ DrawFaults(particle_cloud, weights)
          /\ run' = RunDead
       \/ \E new \in draw_random_sample(particle_cloud, weights, n_particles) :
            run' = [run EXCEPT !.pc = "res_assign", !.samples = new, !.sorigin = origin]
    /\ UNCHANGED <<fields, cb, stamps, hints, origin, tick>>

\* resample_particles, line 346: the assignment to self.particle_cloud
Assign ==
    /\ run.pc = "res_assign"
    /\ particle_cloud' = run.samples
    /\ origin' = run.sorigin
    /\ run' = [run EXCEPT !.pc = "publish", !.samples = <<>>, !.sorigin = "none"]
    /\ tick' = [Ran(tick, "resample") EXCEPT !.weighed = "no"]
    /\ UNCHANGED <<scan_to_process, last_scan_timestamp, weights, current_odom_xy_theta,
                   odom_pose, robot_pose, cb, stamps, hints>>

\* publish_particles(stamp), lines 254 and 428-435: the tick ends
Publish ==
    /\ run.pc = "publish"
    /\ tick' = [tick EXCEPT !.pubs = @ + 1, !.size = Len(particle_cloud)]
    /\ run' = RunIdle
    /\ UNCHANGED <<fields, cb, stamps, hints, origin>>

(***************************************************************************)
(* The system.                                                             *)
(***************************************************************************)
Next ==
    \/ scan_received
    \/ update_initial_pose
    \/ HintBuild
    \/ HintNormSum
    \/ HintNormDiv
    \/ TickStart
    \/ Lookup
    \/ ClearScan
    \/ Gate
    \/ LoopInitClear
    \/ LoopInitBuild
    \/ LoopNormSum
    \/ LoopNormDiv
    \/ Odom
    \/ LaserBegin
    \/ LaserStep
    \/ Estimate
    \/ Draw
    \/ Assign
    \/ Publish

Spec == Init /\ [][Next]_vars

(***************************************************************************)
(* Scheduling.  loop_wrapper calls run_loop for ever (lines 199-201), so   *)
(* the loop thread takes its next step as long as it has one; the executor *)
(* runs a callback it has started to its end.  When and whether scans and  *)
(* pose hints arrive is left to the environment.  A pending scan's lookup  *)
(* does not answer "not yet" for ever: it ends with a pose or with a       *)
(* negative delta_t.                                                       *)
(***************************************************************************)
\* a step of the loop thread
LoopNext ==
    \/ TickStart
    \/ Lookup
    \/ ClearScan
    \/ Gate
    \/ LoopInitClear
    \/ LoopInitBuild
    \/ LoopNormSum
    \/ LoopNormDiv
    \/ Odom
    \/ LaserBegin
    \/ LaserStep
    \/ Estimate
    \/ Draw
    \/ Assign
    \/ Publish

\* a step of update_initial_pose after its first
CallbackNext ==
    \/ HintBuild
    \/ HintNormSum
    \/ HintNormDiv

\* the lookup of lines 214-222 ends with a pose or discards the scan
LookupResolves == Lookup /\ tick'.kind # "retry"

\* the filter is tracking: scan 1 has set the anchor, scan 2 has initialized
\* the cloud around the same pose, and the loop sleeps
TrackingInit ==
    /\ scan_to_process = None
    /\ last_scan_timestamp = <<2>>
    /\ particle_cloud \in InitClouds(<<0, 0, 0>>)
    /\ weights = [i \in 1..n_particles |-> <<1, n_particles>>]
    /\ current_odom_xy_theta = <<0, 0, 0>>
    /\ odom_pose = <<0, 0, 0>>
    /\ robot_pose = None
    /\ run = RunIdle
    /\ cb = CbIdle
    /\ stamps = 2
    /\ hints = 0
    /\ origin = "odom"
    /\ tick = [NoTick EXCEPT !.kind = "init", !.msg = <<2>>, !.ran = <<"init">>,
                             !.pubs = 1, !.size = n_particles]

\* scans keep arriving while the filter tracks
TrackingScan == ScanReceivedUpTo(MaxScans + 1)

TrackingNext ==
    \/ TrackingScan
    \/ update_initial_pose
    \/ CallbackNext
    \/ LoopNext

FairSpec ==
    /\ TrackingInit
    /\ [][TrackingNext]_vars
    /\ WF_vars(LoopNext)
    /\ WF_vars(CallbackNext)
    /\ SF_vars(LookupResolves)

(***************************************************************************)
(* The sensor step on its own: update_particles_with_laser run by the loop *)
(* thread alone on a cloud of a full cycle, with hit counts up to MaxRaw.  *)
(***************************************************************************)
\* a full cycle has moved the anchor to the pose of its scan (line 324) and
\* is about to call update_particles_with_laser (line 247)
SensorInit ==
    /\ scan_to_process = None
    /\ last_scan_timestamp = <<1>>
    /\ \E seed \in Poses : particle_cloud \in InitClouds(seed)
    /\ weights = [i \in 1..n_particles |-> <<1, n_particles>>]
    /\ odom_pose \in Poses
    /\ current_odom_xy_theta = odom_pose
    /\ robot_pose = None
    /\ run = [RunIdle EXCEPT !.pc = "laser_begin", !.msg = <<1>>, !.new_pose = odom_pose]
    /\ cb = CbIdle
    /\ stamps = 1
    /\ hints = 0
    /\ origin = "odom"
    /\ tick = [NoTick EXCEPT !.kind = "cycle", !.msg = <<1>>, !.ran = <<"motion">>]

\* update_particles_with_laser, lines 367-377, for one particle
SensorStep == LaserStepOver(0..MaxRaw)

SensorNext ==
    \/ LaserBegin
    \/ SensorStep

SensorSpec == SensorInit /\ [][SensorNext]_vars

(***************************************************************************)
(* Properties.                                                             *)
(***************************************************************************)
\* a step of the loop thread (only run_loop changes its own frame)
LoopStep == run' # run

\* every axis of the displacement strictly below its threshold
StrictlyBelow(new, anchor) ==
    /\ Abs(X(new) - X(anchor)) < d_thresh
    /\ Abs(Y(new) - Y(anchor)) < d_thresh
    /\ Abs(Theta(new) - Theta(anchor)) < a_thresh

\* C1: a scan that scan_received gets while the slot holds an unconsumed scan
\* is dropped and the slot keeps the first scan; scan_received writes the
\* slot only when it is empty.
C1_ScanBuffering ==
    [][scan_received =>
        /\ scan_to_process # None => scan_to_process' = scan_to_process
        /\ scan_to_process' # scan_to_process => scan_to_process = None]_vars

\* C1 witness: the latest scan was received and dropped, the slot still
\* holds an earlier one
C1_Witness ==
    /\ scan_to_process # None
    /\ last_scan_timestamp # None
    /\ last_scan_timestamp # scan_to_process

\* C2: a tick that reaches the gate with an anchor, a non-empty cloud and a
\* displacement strictly below both thresholds on every axis goes straight
\* to publishing, and no step of that tick changes the cloud or the weights.
C2_SkipMutatesNothing ==
    [][/\ (/\ run.pc = "gate"
           /\ LoopStep
           /\ current_odom_xy_theta # None
           /\ particle_cloud # <<>>
           /\ StrictlyBelow(odom_pose, current_odom_xy_theta))
          => /\ run'.pc = "publish"
             /\ tick'.kind = "skip"
             /\ UNCHANGED <<particle_cloud, weights>>
       /\ (run.pc = "publish" /\ tick.kind = "skip" /\ LoopStep)
          => /\ run'.pc = "sleep"
             /\ tick'.ran = <<>>
             /\ UNCHANGED <<particle_cloud, weights>>]_vars

\* C2 witness: a skipped tick has finished
C2_Witness ==
    /\ run.pc = "sleep"
    /\ tick.kind = "skip"
    /\ tick.pubs = 1
    /\ StrictlyBelow(odom_pose, current_odom_xy_theta)

\* the steps of one full cycle, in the order run_loop calls them
FullCycle == <<"motion", "sensor", "pose", "resample">>

\* C3: a tick that passes the gate because some axis exceeds its threshold
\* ends having run motion, sensor, pose estimate and resample once each.
C3_TriggerRunsFullCycle ==
    (tick.kind = "cycle" /\ run.pc \in {"sleep", "dead"}) => tick.ran = FullCycle

\* the kinds of tick on which run_loop reaches publish_particles
Resolved == {"anchor", "init", "cycle", "skip"}

\* C4 as claimed: every finished tick has published one snapshot of
\* n_particles particles.
C4_PublishEveryTick ==
    (run.pc = "sleep" /\ tick.kind # "none") => (tick.pubs = 1 /\ tick.size = n_particles)

\* C4 amended: a tick publishes at most once; a finished tick has published
\* once exactly when it took a scan whose lookup resolved, a tick ended by a
\* fault has published nothing, and a snapshot holds n_particles particles or
\* none (the anchor tick, or a pose hint that is rebuilding the cloud).
C4_PublishOncePerResolvedTick ==
    /\ tick.pubs <= 1
    /\ (run.pc = "sleep" /\ tick.kind # "none") =>
            /\ tick.pubs = (IF tick.kind \in Resolved THEN 1 ELSE 0)
            /\ tick.size \in {0, n_particles}
            /\ (tick.pubs = 1 /\ tick.size = 0) => (tick.kind = "anchor" \/ hints > 0)
    /\ run.pc = "dead" => tick.pubs = 0

\* C4 witness: a tick that ran a full cycle has published a full cloud
C4_Witness ==
    /\ run.pc = "sleep"
    /\ tick.kind = "cycle"
    /\ tick.pubs = 1
    /\ tick.size = n_particles

\* C5: a tick whose lookup returns no pose ends at once, leaves cloud,
\* weights and anchor alone and runs nothing; it empties the slot exactly
\* when delta_t is present and negative, else the slot keeps the scan, and
\* the next tick that starts takes that same scan to look it up again.
C5_LookupFailure ==
    [][/\ (run.pc = "lookup" /\ LoopStep /\ run'.pc # "clear")
          => /\ run'.pc = "sleep"
             /\ tick'.ran = <<>>
             /\ tick'.pubs = 0
             /\ UNCHANGED <<particle_cloud, weights, current_odom_xy_theta>>
             /\ (scan_to_process' = None)
                    <=> (tick'.delta_t # None /\ tick'.delta_t[1] < 0)
             /\ scan_to_process' # None => scan_to_process' = run.msg
             /\ tick'.kind = (IF scan_to_process' = None THEN "dropped" ELSE "retry")
       /\ (run.pc = "sleep" /\ tick.kind = "retry")
          => /\ scan_to_process = tick.msg
             /\ LoopStep => (run'.pc = "lookup" /\ run'.msg = tick.msg)]_vars

\* C5 witness: a lookup has failed with a delta_t of zero, the tick is over
\* and the slot still holds its scan, while a later scan has been dropped
C5_Witness ==
    /\ run.pc = "sleep"
    /\ tick.kind = "retry"
    /\ tick.delta_t = <<0>>
    /\ scan_to_process = tick.msg
    /\ last_scan_timestamp # scan_to_process

\* C6: when a pose hint is handled while a full cycle is in progress, then
\* once the tick and the callback have both finished the particles of the
\* cloud are those initialized around the hint.
C6_HintWins ==
    (tick.kind = "cycle" /\ tick.hint /\ run.pc = "sleep" /\ cb.pc = "idle")
        => origin = "hint"

\* C7: when update_initial_pose completes, the anchor is no longer the one
\* the filter had when the hint arrived.
C7_HintReplacesAnchor ==
    [][(cb.pc = "h_div" /\ cb'.pc = "idle" /\ cb.anchor0 # None)
        => current_odom_xy_theta' # cb.anchor0]_vars

\* C8: once the cloud holds n_particles particles, every later state shows a
\* cloud of n_particles particles and as many weights.
C8_AtomicReplacement ==
    [][Len(particle_cloud) = n_particles
        => (Len(particle_cloud') = n_particles /\ Len(weights') = n_particles)]_vars

\* the division step of a normalize_particles call, in either thread
NormDivStep ==
    \/ run.pc \in {"init_div", "pose_div", "res_div"} /\ LoopStep
    \/ cb.pc = "h_div" /\ cb' # cb

AllZero(ws) == \A i \in DOMAIN ws : ws[i] = <<0, 1>>

Uniform == [i \in 1..n_particles |-> <<1, n_particles>>]

\* the sum that the normalize_particles call now dividing has taken
NormSum == IF cb.pc = "h_div" /\ cb' # cb THEN cb.wsum ELSE run.wsum

\* C9: a normalize_particles call that finds every weight zero (the sum it
\* took is zero) leaves every weight 1/N.
C9_ZeroSumGivesUniform ==
    [][(NormDivStep /\ AllZero(weights) /\ NormSum = <<0, 1>>)
        => weights' = Uniform]_vars

\* C10 as claimed: the tick that records the anchor ends with an empty
\* particle cloud.
C10_AnchorTickCloudEmpty ==
    [][(tick.kind = "anchor" /\ run.pc = "publish" /\ LoopStep)
        => particle_cloud' = <<>>]_vars

\* C10 amended: the first tick whose lookup resolves records that pose as
\* the anchor, goes straight to publishing, runs no motion, sensor, pose or
\* resample step and changes neither cloud nor weights; the cloud it leaves
\* is empty when no pose hint has been handled before.
C10_AnchorTick ==
    [][/\ (run.pc = "gate" /\ LoopStep /\ current_odom_xy_theta = None)
          => /\ current_odom_xy_theta' = odom_pose
             /\ tick'.kind = "anchor"
             /\ run'.pc = "publish"
             /\ UNCHANGED <<particle_cloud, weights>>
       /\ (tick.kind = "anchor" /\ run.pc = "publish" /\ LoopStep)
          => /\ run'.pc = "sleep"
             /\ tick'.ran = <<>>
             /\ UNCHANGED <<particle_cloud, weights, current_odom_xy_theta>>
             /\ hints = 0 => particle_cloud' = <<>>]_vars

\* C10 witness: the anchor tick has finished, after a pose hint built a cloud
C10_Witness ==
    /\ run.pc = "sleep"
    /\ tick.kind = "anchor"
    /\ current_odom_xy_theta = odom_pose
    /\ origin = "hint"
    /\ Len(particle_cloud) = n_particles

\* C11: the tick that finds an anchor and an empty cloud hands the stored
\* anchor to initialize_particle_cloud as the seed pose, so that the next
\* motion step's delta is the displacement since the seed.
C11_InitSeedIsAnchor ==
    [][(run.pc = "init_clear" /\ LoopStep) => run'.xy_theta = current_odom_xy_theta]_vars

\* the pcs of run_loop after line 231 has cleared the slot
AfterClearPcs ==
    {"gate", "init_clear", "init_build", "init_sum", "init_div", "publish"} \cup CyclePcs

IsPrefix(s, t) == Len(s) <= Len(t) /\ s = SubSeq(t, 1, Len(s))

EstimateOrResamplePcs ==
    {"pose_sum", "pose_div", "pose_est", "res_sum", "res_div", "res_draw", "res_assign"}

\* C14: whenever update_robot_pose or resample_particles is executing, the
\* particle cloud is not empty.
C14_NeverZeroParticles ==
    run.pc \in EstimateOrResamplePcs => particle_cloud # <<>>

\* the last step of an initialize_particle_cloud call, in either thread
InitDoneStep ==
    \/ run.pc = "init_div" /\ LoopStep
    \/ cb.pc = "h_div" /\ cb' # cb

\* C15: when an initialize_particle_cloud call returns, every weight is 1/N
\* (the call's normalize has divided the weights by their own sum).
C15_InitResetsWeights ==
    [][(InitDoneStep /\ NormSum = RSum(weights)) => weights' = Uniform]_vars

\* C16: every pose estimate and every resample reads weights that a sensor
\* update has computed for the list particle_cloud names at that moment: no
\* resample and no initialization (of the loop or of a pose hint) has
\* replaced the cloud since that sensor update began.
C16_WeightsNeverStale ==
    [][/\ (run.pc = "pose_est" /\ LoopStep /\ run'.pc # "dead") => tick.weighed = "yes"
       /\ (run.pc = "res_draw" /\ LoopStep /\ run'.pc # "dead") => tick.weighed = "yes"]_vars

Cube(n) == n * n * n

\* C17: the weight the sensor step stores for a particle is the cube of the
\* number of its projected scan points that are hits.
C17_WeightIsCubeOfHits ==
    [][(run.pc = "laser" /\ LoopStep)
        => weights'[run.idx + 1] = <<Cube(run'.raw_weight), 1>>]_vars

\* the float product of a weight and a non-negative coordinate
RTimes(w, v) ==
    IF w = NaN THEN NaN
    ELSE IF w = Inf THEN (IF v = 0 THEN NaN ELSE Inf)
    ELSE Rat(w[1] * v, w[2])

\* sum_i (weight_i * value_i) over all particles
WeightedMean(ws, vs) == RSum([i \in 1..Len(vs) |-> RTimes(ws[i], vs[i])])

\* C18: the x and the y of the pose estimate are the means of the x and the
\* y of all particles, each weighted by its normalized weight.
C18_EstimateIsWeightedMean ==
    [][(run.pc = "pose_est" /\ LoopStep /\ run'.pc # "dead"
            /\ Len(particle_cloud) = Len(weights) /\ RSum(weights) = <<1, 1>>)
        => /\ robot_pose'[1] =
                WeightedMean(weights, [i \in 1..Len(particle_cloud) |-> particle_cloud[i].x])
           /\ robot_pose'[2] =
                WeightedMean(weights, [i \in 1..Len(particle_cloud) |-> particle_cloud[i].y])]_vars

\* C19: the slot changes only from empty to the scan scan_received has just
\* got, and from a scan to empty by a step of run_loop; the scan run_loop
\* removes is the one it read when the tick started, and it removes it when
\* the lookup has resolved (the scan is taken) or has failed with a negative
\* delta_t (the scan can never be resolved).
C19_SlotIntegrity ==
    [][scan_to_process' # scan_to_process =>
        \/ /\ scan_to_process = None
           /\ scan_received
           /\ scan_to_process' = last_scan_timestamp'
        \/ /\ scan_to_process' = None
           /\ LoopStep
           /\ scan_to_process = run.msg
           /\ run.msg = tick.msg
           /\ \/ run.pc = "clear"
              \/ /\ run.pc = "lookup"
                 /\ tick'.delta_t # None
                 /\ tick'.delta_t[1] < 0]_vars

\* C19 witness: the loop has removed the scan it took, after a later scan was
\* received and dropped while that scan was still in the slot
C19_Witness ==
    /\ run.pc = "gate"
    /\ scan_to_process = None
    /\ last_scan_timestamp # None
    /\ last_scan_timestamp[1] > run.msg[1]

\* C20: once set, the anchor changes only in the motion step of a tick that
\* runs a full cycle, to the pose that tick's scan resolved to, which lies
\* beyond a threshold from the old anchor; every step of a tick that skips,
\* initializes the cloud, fails its lookup or finds no scan leaves it.
C20_AnchorFrame ==
    [][/\ (current_odom_xy_theta # None /\ current_odom_xy_theta' # current_odom_xy_theta)
          => /\ LoopStep
             /\ run.pc = "odom"
             /\ tick.kind = "cycle"
             /\ current_odom_xy_theta' = run.new_pose
             /\ \/ Abs(X(run.new_pose) - X(current_odom_xy_theta)) > d_thresh
                \/ Abs(Y(run.new_pose) - Y(current_odom_xy_theta)) > d_thresh
                \/ Abs(Theta(run.new_pose) - Theta(current_odom_xy_theta)) > a_thresh
       /\ (run.pc = "odom" /\ LoopStep) => current_odom_xy_theta' = run.new_pose
       /\ (current_odom_xy_theta # None /\ run.pc # "sleep"
                /\ tick.kind \in {"skip", "init", "taken"})
          => UNCHANGED current_odom_xy_theta]_vars

\* C20 witness: a tick has skipped the update and left the anchor behind the
\* pose its scan resolved to
C20_Witness ==
    /\ run.pc = "sleep"
    /\ tick.kind = "skip"
    /\ tick.pubs = 1
    /\ current_odom_xy_theta # None
    /\ current_odom_xy_theta # odom_pose

\* C22: once the anchor is set, no step of the loop, of scan_received or of
\* update_initial_pose unsets it; the anchor goes from unset to set only in
\* the gate step of the tick that records it, so it is set from unset once.
C22_AnchorNeverUnset ==
    [][/\ current_odom_xy_theta # None => current_odom_xy_theta' # None
       /\ (current_odom_xy_theta = None /\ current_odom_xy_theta' # None)
          => /\ run.pc = "gate"
             /\ LoopStep
             /\ tick'.kind = "anchor"
             /\ current_odom_xy_theta' = odom_pose
       /\ tick.kind \in {"init", "cycle", "skip"} => current_odom_xy_theta # None]_vars

\* C22 witness: with the anchor set, a pose hint has been handled and a full
\* cycle has run and moved the anchor
C22_Witness ==
    /\ run.pc = "sleep"
    /\ cb.pc = "idle"
    /\ hints > 0
    /\ tick.kind = "cycle"
    /\ tick.ran = FullCycle
    /\ current_odom_xy_theta # None
    /\ current_odom_xy_theta = odom_pose

\* C21: with the loop ticking and every lookup eventually resolved, a scan
\* that is in the slot while the filter has an anchor and a cloud of
\* n_particles particles is eventually consumed: the slot becomes empty again.
C21_EventualTracking ==
    (/\ current_odom_xy_theta # None
     /\ Len(particle_cloud) = n_particles
     /\ scan_to_process # None) ~> (scan_to_process = None)

====
